---- MODULE Spec2Model ----
(***************************************************************************)
(* Model of the transcript-comparison core of src/utilities.py: the text   *)
(* normaliser (clean_text), the alignment engine (equalize), the wrapping  *)
(* renderer (insert_newlines, show_comparison) and the weighted aggregate  *)
(* (weighted_wer).                                                         *)
(*                                                                         *)
(* A Python str is a sequence of one-character strings; Python indexes are *)
(* 0-based, so the character s[i] of the code is s[i + 1] here.            *)
(***************************************************************************)
EXTENDS Integers, Sequences, FiniteSets, TLC

VARIABLES
    pc,           \* position of the call being executed
    s1, s2,       \* arguments of equalize / show_comparison, as passed
    eq1, eq2,     \* the pair returned by equalize (what line 265 rebinds s1, s2 to)
    string,       \* argument of insert_newlines
    every,        \* insert_newlines: every  (show_comparison passes width)
    window,       \* insert_newlines: window (show_comparison passes margin)
    from_string,  \* insert_newlines: the text still to wrap
    result,       \* insert_newlines: the chunks cut so far
    lines1,       \* show_comparison: insert_newlines(s1, ...) (what line 268 rebinds s1 to)
    lines2,       \* show_comparison: insert_newlines(s2, ...) (what line 269 rebinds s2 to)
    sidebyside,   \* show_comparison: sidebyside
    printed,      \* show_comparison: number of lines printed so far
    text,         \* clean_text: text
    replacements, \* clean_text: replacements (a function from lowercase word to replacement)
    to_remove,    \* clean_text: to_remove
    cased,        \* clean_text: cased
    cleaned,      \* clean_text(text, ...)
    recleaned,    \* clean_text(clean_text(text, ...), ...)
    weights,      \* weighted_wer: weights
    wers,         \* weighted_wer: wers, in hundredths
    wwer,         \* weighted_wer: the value returned, in hundredths
    files,        \* transcribe_folder: number of files in response["Contents"][1:]
    passed,       \* transcribe_folder: number of files the for loop has passed
    job_count,    \* transcribe_folder: job_count, then download_folder's argument
    jobs,         \* the service: status of the transcription job of each file
    outputs,      \* the bucket: files whose transcript is in the output folder
    sleeps        \* number of time.sleep(10) calls made so far

eqVars    == <<s1, s2, eq1, eq2>>
nlVars    == <<string, every, window, from_string, result>>
showVars  == <<lines1, lines2, sidebyside, printed>>
cleanVars == <<text, replacements, to_remove, cased, cleaned, recleaned>>
wwerVars  == <<weights, wers, wwer>>
jobVars   == <<files, passed, job_count, jobs, outputs, sleeps>>
vars      == <<pc, eqVars, nlVars, showVars, cleanVars, wwerVars, jobVars>>

\* ------------------------------------------------------------------ bounds

\* longest argument of equalize, in characters
MaxLen == 6
\* longest argument of show_comparison, in characters
MaxShowLen == 4
\* largest width and margin given to show_comparison
MaxWidth == 3
MaxMargin == 3
\* longest string wrapped with every = 10, window = 3
MaxWrapLen == 14
\* longest string given to insert_newlines with small every and window
MaxNlLen == 6
\* cap on the chunks of a wrapping loop that makes no progress
MaxChunks == 6
\* longest text given to clean_text, in characters
MaxTextLen == 3
\* largest weight and largest number of samples given to weighted_wer
MaxWeight == 2
MaxSamples == 2

\* longest text given to clean_text with a replacement that holds punctuation
MaxPunctLen == 5
\* largest number of files listed in the input folder
MaxFiles == 2
\* largest number of time.sleep(10) calls followed
MaxSleeps == 2

\* ------------------------------------------------------- Python primitives

Min(a, b) == IF a <= b THEN a ELSE b
Max(a, b) == IF a >= b THEN a ELSE b

\* All strings of at most n characters over the alphabet cs.
Strings(cs, n) == UNION {[1..k -> cs] : k \in 0..n}

\* s[idx] is defined (no IndexError) for -len(s) <= idx < len(s).
PyIndexOk(s, idx) == -Len(s) <= idx /\ idx < Len(s)
PyIndex(s, idx) == IF idx >= 0 THEN s[idx + 1] ELSE s[Len(s) + idx + 1]

\* The stop position of a slice, clamped as Python clamps it.
PyClamp(s, c) == IF c >= 0 THEN Min(c, Len(s)) ELSE Max(Len(s) + c, 0)
\* s[:c] and s[c:]
PyPrefix(s, c) == SubSeq(s, 1, PyClamp(s, c))
PySuffix(s, c) == SubSeq(s, PyClamp(s, c) + 1, Len(s))

\* The characters \s matches (of the alphabets used here only the blank).
Whitespace == {" ", "\t", "\n"}

\* sep.join(words)
RECURSIVE Join(_, _)
Join(words, sep) ==
    IF Len(words) = 0 THEN <<>>
    ELSE IF Len(words) = 1 THEN words[1]
    ELSE words[1] \o sep \o Join(Tail(words), sep)

\* ---------------------------------------------------- tokenize / untokenize

\* re.split(r"\s+", text): cut at every maximal run of whitespace; a run at
\* the start or the end leaves an empty token there, and "" gives [""].
\* cur is the token being read, inrun whether the previous character was
\* whitespace.
RECURSIVE SplitRuns(_, _, _, _)
SplitRuns(t, k, cur, inrun) ==
    IF k > Len(t) THEN <<cur>>
    ELSE IF t[k] \in Whitespace
         THEN IF inrun THEN SplitRuns(t, k + 1, cur, TRUE)
              ELSE <<cur>> \o SplitRuns(t, k + 1, <<>>, TRUE)
         ELSE SplitRuns(t, k + 1, Append(cur, t[k]), FALSE)

tokenize(t) == SplitRuns(t, 1, <<>>, FALSE)

untokenize(text_list) == Join(text_list, <<" ">>)

\* ------------------------------------------------------ matching blocks

\* Length of the common run of a[i:ahi] and b[j:bhi] that starts at (i, j).
RECURSIVE MatchLen(_, _, _, _, _, _)
MatchLen(a, b, i, j, ahi, bhi) ==
    IF i < ahi /\ j < bhi /\ a[i + 1] = b[j + 1]
    THEN 1 + MatchLen(a, b, i + 1, j + 1, ahi, bhi)
    ELSE 0

\* difflib.SequenceMatcher.find_longest_match without junk: the longest block
\* common to a[alo:ahi] and b[blo:bhi]; of the longest, the one that starts
\* earliest in a, and of those the one that starts earliest in b; (alo, blo, 0)
\* when nothing matches.  (The autojunk heuristic only acts on sequences of
\* 200 elements or more.)
find_longest_match(a, b, alo, ahi, blo, bhi) ==
    LET len(i, j) == MatchLen(a, b, i, j, ahi, bhi)
        pairs     == (alo..(ahi - 1)) \X (blo..(bhi - 1))
        bestsize  == IF pairs = {} THEN 0
                     ELSE CHOOSE k \in {len(p[1], p[2]) : p \in pairs} :
                              \A p \in pairs : len(p[1], p[2]) <= k
        longest   == {p \in pairs : len(p[1], p[2]) = bestsize}
        besti     == CHOOSE i \in {p[1] : p \in longest} :
                         \A p \in longest : i <= p[1]
        bestj     == CHOOSE j \in {p[2] : p \in {q \in longest : q[1] = besti}} :
                         \A p \in longest : p[1] = besti => j <= p[2]
    IN  IF bestsize = 0 THEN <<alo, blo, 0>> ELSE <<besti, bestj, bestsize>>

\* The queue loop of get_matching_blocks followed by its sort: the longest
\* match of the region, the blocks to its left before it and the blocks to
\* its right after it.
RECURSIVE BlocksIn(_, _, _, _, _, _)
BlocksIn(a, b, alo, ahi, blo, bhi) ==
    LET x == find_longest_match(a, b, alo, ahi, blo, bhi)
        i == x[1]
        j == x[2]
        k == x[3]
    IN  IF k = 0 THEN <<>>
        ELSE (IF alo < i /\ blo < j THEN BlocksIn(a, b, alo, i, blo, j) ELSE <<>>)
             \o <<x>>
             \o (IF i + k < ahi /\ j + k < bhi
                 THEN BlocksIn(a, b, i + k, ahi, j + k, bhi) ELSE <<>>)

\* The second loop of get_matching_blocks: adjacent blocks are merged.
\* cur is (i1, j1, k1).
RECURSIVE NonAdjacent(_, _, _)
NonAdjacent(blocks, n, cur) ==
    IF n > Len(blocks)
    THEN IF cur[3] # 0 THEN <<cur>> ELSE <<>>
    ELSE LET nxt == blocks[n]
         IN  IF cur[1] + cur[3] = nxt[1] /\ cur[2] + cur[3] = nxt[2]
             THEN NonAdjacent(blocks, n + 1, <<cur[1], cur[2], cur[3] + nxt[3]>>)
             ELSE (IF cur[3] # 0 THEN <<cur>> ELSE <<>>)
                  \o NonAdjacent(blocks, n + 1, nxt)

\* difflib.SequenceMatcher(a=a, b=b).get_matching_blocks(): the blocks in
\* increasing order, closed by the dummy block (len(a), len(b), 0).
get_matching_blocks(a, b) ==
    NonAdjacent(BlocksIn(a, b, 0, Len(a), 0, Len(b)), 1, <<0, 0, 0>>)
        \o <<<<Len(a), Len(b), 0>>>>

\* ---------------------------------------------------------------- equalize

\* "_" * n
Underscores(n) == [x \in 1..n |-> "_"]

\* [f(l[i]) for i in range(lo, hi)] with f the identity (l[lo:hi]) or the
\* underscore run of the token's length.
TokensOf(l, lo, hi) == [x \in 1..(hi - lo) |-> l[lo + x]]
\* GapsOf with "_" in place of "_" * len(l[i]).
GapsOfUnit(l, lo, hi) == [x \in 1..(hi - lo) |-> <<"_">>]
GapsOf(l, lo, hi) == [x \in 1..(hi - lo) |-> Underscores(Len(l[lo + x]))]

\* EqualizeBlock without line 213: res1 gets no placeholder for the tokens
\* only l2 has.
EqualizeBlockOneSided(l1, l2, prev, match, acc) ==
    LET pa == prev[1] + prev[3]
        pb == prev[2] + prev[3]
        a1 == IF pa # match[1]
              THEN <<acc[1] \o TokensOf(l1, pa, match[1]),
                     acc[2] \o GapsOf(l1, pa, match[1])>>
              ELSE acc
        a2 == IF pb # match[2]
              THEN <<a1[1], a1[2] \o TokensOf(l2, pb, match[2])>>
              ELSE a1
    IN  <<a2[1] \o TokensOf(l1, match[1], match[1] + match[3]),
          a2[2] \o TokensOf(l2, match[2], match[2] + match[3])>>

\* EqualizeBlock with prev.a and prev.b in place of prev.a + prev.size and
\* prev.b + prev.size.
EqualizeBlockNoSize(l1, l2, prev, match, acc) ==
    LET pa == prev[1]
        pb == prev[2]
        a1 == IF pa # match[1]
              THEN <<acc[1] \o TokensOf(l1, pa, match[1]),
                     acc[2] \o GapsOf(l1, pa, match[1])>>
              ELSE acc
        a2 == IF pb # match[2]
              THEN <<a1[1] \o GapsOf(l2, pb, match[2]),
                     a1[2] \o TokensOf(l2, pb, match[2])>>
              ELSE a1
    IN  <<a2[1] \o TokensOf(l1, match[1], match[1] + match[3]),
          a2[2] \o TokensOf(l2, match[2], match[2] + match[3])>>

\* One iteration of the loop of equalize (lines 207-217) for the block match,
\* prev being the block before it; acc is <<res1, res2>>.
EqualizeBlock(l1, l2, prev, match, acc) ==
    LET pa == prev[1] + prev[3]
        pb == prev[2] + prev[3]
        a1 == IF pa # match[1]
              THEN <<acc[1] \o TokensOf(l1, pa, match[1]),
                     acc[2] \o GapsOf(l1, pa, match[1])>>
              ELSE acc
        a2 == IF pb # match[2]
              THEN <<a1[1] \o GapsOf(l2, pb, match[2]),
                     a1[2] \o TokensOf(l2, pb, match[2])>>
              ELSE a1
    IN  <<a2[1] \o TokensOf(l1, match[1], match[1] + match[3]),
          a2[2] \o TokensOf(l2, match[2], match[2] + match[3])>>

RECURSIVE EqualizeLoop(_, _, _, _, _, _)
EqualizeLoop(l1, l2, blocks, n, prev, acc) ==
    IF n > Len(blocks) THEN acc
    ELSE EqualizeLoop(l1, l2, blocks, n + 1, blocks[n],
                      EqualizeBlock(l1, l2, prev, blocks[n], acc))

\* The two token lists res1, res2 of equalize before they are joined.
EqualizeTokens(t1, t2) ==
    LET l1 == tokenize(t1)
        l2 == tokenize(t2)
    IN  EqualizeLoop(l1, l2, get_matching_blocks(l1, l2), 1, <<0, 0, 0>>,
                     <<<<>>, <<>>>>)

equalize(t1, t2) ==
    LET res == EqualizeTokens(t1, t2)
    IN  <<untokenize(res[1]), untokenize(res[2])>>

\* --------------------------------------------------------- insert_newlines

\* CutOffLoop with == in place of != : the cut moves back over blanks only.
RECURSIVE CutOffLoopEq(_, _, _, _)
CutOffLoopEq(fs, cut_off, ev, win) ==
    IF ~PyIndexOk(fs, cut_off - 1) THEN [err |-> TRUE, cut_off |-> cut_off]
    ELSE IF PyIndex(fs, cut_off - 1) = " " /\ cut_off > ev - win
         THEN CutOffLoopEq(fs, cut_off - 1, ev, win)
         ELSE [err |-> FALSE, cut_off |-> cut_off]

\* The inner while of insert_newlines (lines 236-237), entered with
\* cut_off = every.  from_string[cut_off - 1] is read before cut_off is
\* compared, and a negative index counts from the end of the string; err
\* says that the read raised IndexError.
RECURSIVE CutOffLoop(_, _, _, _)
CutOffLoop(fs, cut_off, ev, win) ==
    IF ~PyIndexOk(fs, cut_off - 1) THEN [err |-> TRUE, cut_off |-> cut_off]
    ELSE IF PyIndex(fs, cut_off - 1) # " " /\ cut_off > ev - win
         THEN CutOffLoop(fs, cut_off - 1, ev, win)
         ELSE [err |-> FALSE, cut_off |-> cut_off]

\* Lines 234-239: the place where the next chunk is cut.
CutOff(fs, ev, win) ==
    IF Len(fs) > ev THEN CutOffLoop(fs, ev, ev, win)
    ELSE [err |-> FALSE, cut_off |-> Len(fs)]

\* ---------------------------------------------------------------- clean_text

LowerLetters == {"a", "b", "c", "d", "e", "f", "g", "h", "i", "j", "k", "l", "m",
                 "n", "o", "p", "q", "r", "s", "t", "u", "v", "w", "x", "y", "z"}
UpperLetters == {"A", "B", "C", "D", "E", "F", "G", "H", "I", "J", "K", "L", "M",
                 "N", "O", "P", "Q", "R", "S", "T", "U", "V", "W", "X", "Y", "Z"}
Digits == {"0", "1", "2", "3", "4", "5", "6", "7", "8", "9"}

\* string.punctuation (without the backquote, which no string of this
\* notation can hold; no text of the model contains it)
Punctuation == {"!", "\"", "#", "$", "%", "&", "'", "(", ")", "*", "+", ",", "-",
                ".", "/", ":", ";", "<", "=", ">", "?", "@", "[", "\\", "]", "^",
                "_", "{", "|", "}", "~"}

\* The characters \w matches; \W matches the others.
WordChars == LowerLetters \cup UpperLetters \cup Digits \cup {"_"}

\* c.lower()
LowerChar(c) ==
    CASE c = "A" -> "a" [] c = "B" -> "b" [] c = "C" -> "c" [] c = "D" -> "d"
      [] c = "E" -> "e" [] c = "F" -> "f" [] c = "G" -> "g" [] c = "H" -> "h"
      [] c = "I" -> "i" [] c = "J" -> "j" [] c = "K" -> "k" [] c = "L" -> "l"
      [] c = "M" -> "m" [] c = "N" -> "n" [] c = "O" -> "o" [] c = "P" -> "p"
      [] c = "Q" -> "q" [] c = "R" -> "r" [] c = "S" -> "s" [] c = "T" -> "t"
      [] c = "U" -> "u" [] c = "V" -> "v" [] c = "W" -> "w" [] c = "X" -> "x"
      [] c = "Y" -> "y" [] c = "Z" -> "z" [] OTHER -> c

\* t.lower()
Lower(t) == [k \in 1..Len(t) |-> LowerChar(t[k])]

\* t.split(): the words between runs of whitespace, none of them empty.
RECURSIVE SplitWords(_, _, _)
SplitWords(t, k, cur) ==
    IF k > Len(t) THEN (IF Len(cur) > 0 THEN <<cur>> ELSE <<>>)
    ELSE IF t[k] \in Whitespace
         THEN (IF Len(cur) > 0 THEN <<cur>> ELSE <<>>) \o SplitWords(t, k + 1, <<>>)
         ELSE SplitWords(t, k + 1, Append(cur, t[k]))

Split(t) == SplitWords(t, 1, <<>>)

\* t.strip()
RECURSIVE LStrip(_)
LStrip(t) == IF Len(t) > 0 /\ t[1] \in Whitespace THEN LStrip(Tail(t)) ELSE t
RECURSIVE RStrip(_)
RStrip(t) ==
    IF Len(t) > 0 /\ t[Len(t)] \in Whitespace
    THEN RStrip(SubSeq(t, 1, Len(t) - 1)) ELSE t
Strip(t) == RStrip(LStrip(t))

\* text.replace("-", " "), line 122.
ReplaceHyphens(t) == [k \in 1..Len(t) |-> IF t[k] = "-" THEN " " ELSE t[k]]

\* The loop of replace_words (lines 89-92): result_string after the words
\* from the n-th on.
RECURSIVE ReplaceLoop(_, _, _)
ReplaceLoop(words, n, repl) ==
    IF n > Len(words) THEN <<>>
    ELSE LET word == IF Lower(words[n]) \in DOMAIN repl
                     THEN repl[Lower(words[n])] ELSE words[n]
         IN  word \o <<" ">> \o ReplaceLoop(words, n + 1, repl)

replace_words(t, repl) == Strip(ReplaceLoop(Split(t), 1, repl))

\* text.translate(str.maketrans("", "", string.punctuation))
RECURSIVE remove_punctuation(_)
remove_punctuation(t) ==
    IF Len(t) = 0 THEN <<>>
    ELSE (IF t[1] \in Punctuation THEN <<>> ELSE <<t[1]>>)
         \o remove_punctuation(Tail(t))

\* x in words_to_remove, for a list.
InList(x, lst) == \E n \in 1..Len(lst) : lst[n] = x

RECURSIVE FilterWords(_, _, _)
FilterWords(words, n, words_to_remove) ==
    IF n > Len(words) THEN <<>>
    ELSE (IF InList(Lower(words[n]), words_to_remove) THEN <<>> ELSE <<words[n]>>)
         \o FilterWords(words, n + 1, words_to_remove)

remove_words(t, words_to_remove) ==
    Join(FilterWords(Split(t), 1, words_to_remove), <<" ">>)

\* End (exclusive, 0-based) of the run of \w characters (w = TRUE) or of \W
\* characters (w = FALSE) of t that starts at the 0-based index i.
RECURSIVE RunEnd(_, _, _)
RunEnd(t, i, w) ==
    IF i < Len(t) /\ ((t[i + 1] \in WordChars) <=> w) THEN RunEnd(t, i + 1, w) ELSE i

\* (?:\W+\1\b)+ at j for the group word, ignoring case: the end of the last
\* repeat, each repeat a run of \W characters followed by a whole run of \w
\* characters equal to word; j itself when there is no repeat.
RECURSIVE RepeatsEnd(_, _, _)
RepeatsEnd(t, j, word) ==
    LET k == RunEnd(t, j, FALSE)
        m == RunEnd(t, k, TRUE)
    IN  IF k > j /\ m > k /\ Lower(SubSeq(t, k + 1, m)) = Lower(word)
        THEN RepeatsEnd(t, m, word)
        ELSE j

\* SubDuplicates with pattern.sub("", text): the whole run of equal words is
\* deleted, its first word included.
RECURSIVE SubDuplicatesAll(_, _)
SubDuplicatesAll(t, i) ==
    IF i >= Len(t) THEN <<>>
    ELSE IF t[i + 1] \in WordChars
         THEN LET e == RunEnd(t, i, TRUE)
                  j == RepeatsEnd(t, e, SubSeq(t, i + 1, e))
              IN  (IF j > e THEN <<>> ELSE SubSeq(t, i + 1, e))
                  \o SubDuplicatesAll(t, j)
         ELSE <<t[i + 1]>> \o SubDuplicatesAll(t, i + 1)

\* pattern.sub(r"\1", text) for \b(\w+)(?:\W+\1\b)+ with re.IGNORECASE, from
\* the 0-based index i on.  A match can only start where a run of \w
\* characters starts, and its group is the whole run: \W+ has to follow it.
RECURSIVE SubDuplicates(_, _)
SubDuplicates(t, i) ==
    IF i >= Len(t) THEN <<>>
    ELSE IF t[i + 1] \in WordChars
         THEN LET e == RunEnd(t, i, TRUE)
                  j == RepeatsEnd(t, e, SubSeq(t, i + 1, e))
              IN  SubSeq(t, i + 1, e) \o SubDuplicates(t, j)
         ELSE <<t[i + 1]>> \o SubDuplicates(t, i + 1)

remove_consecutive_duplicates(t) == SubDuplicates(t, 0)

\* Lines 122-130.
clean_text(t, repl, rem, cas) ==
    LET t1 == ReplaceHyphens(t)
        t2 == replace_words(t1, repl)
        t3 == remove_punctuation(t2)
        t4 == replace_words(t3, repl)
        t5 == remove_words(t4, rem)
        t6 == remove_consecutive_duplicates(t5)
    IN  IF ~cas THEN Lower(t6) ELSE t6

\* ----------------------------------------------------------------- states

EqIdle    == s1 = <<>> /\ s2 = <<>> /\ eq1 = <<>> /\ eq2 = <<>>
NlIdle    == string = <<>> /\ every = 0 /\ window = 0 /\ from_string = <<>>
             /\ result = <<>>
ShowIdle  == lines1 = <<>> /\ lines2 = <<>> /\ sidebyside = FALSE /\ printed = 0
CleanIdle == text = <<>> /\ replacements = <<>> /\ to_remove = <<>>
             /\ cased = TRUE /\ cleaned = <<>> /\ recleaned = <<>>
WwerIdle  == weights = <<>> /\ wers = <<>> /\ wwer = 0
JobIdle   ==
    /\ files = 0 /\ passed = 0 /\ job_count = 0
    /\ jobs = <<>> /\ outputs = {} /\ sleeps = 0

\* The characters of the strings given to equalize, show_comparison and
\* insert_newlines: tokens are runs of "a", so they differ by their length.
EqAlphabet == {"a", " "}

\* ------------------------------------------------------- a call of equalize

InitEqualize ==
    /\ pc = "equalize"
    /\ s1 \in Strings(EqAlphabet, MaxLen)
    /\ s2 \in Strings(EqAlphabet, MaxLen)
    /\ eq1 = <<>> /\ eq2 = <<>>
    /\ NlIdle /\ ShowIdle /\ CleanIdle /\ WwerIdle /\ JobIdle

\* equalize(s1, s2), lines 201-218.
Equalize ==
    /\ pc = "equalize"
    /\ eq1' = equalize(s1, s2)[1]
    /\ eq2' = equalize(s1, s2)[2]
    /\ pc' = "equalized"
    /\ UNCHANGED <<s1, s2, nlVars, showVars, cleanVars, wwerVars, jobVars>>

NextEqualize == Equalize

SpecEqualize == InitEqualize /\ [][NextEqualize]_vars

\* ------------------------------------------------ a call of insert_newlines

\* One iteration of the while of insert_newlines (lines 233-242), of a direct
\* call or of one of the two calls show_comparison makes.  An IndexError
\* raised by from_string[cut_off - 1] ends the call.  The code's loop is
\* unbounded; here it stops after MaxChunks chunks.
NlIter ==
    /\ pc \in {"insert_newlines", "wrap1", "wrap2"}
    /\ Len(from_string) > 0
    /\ Len(result) < MaxChunks
    /\ LET c == CutOff(from_string, every, window)
       IN  IF c.err
           THEN /\ pc' = "raise_insert_newlines"
                /\ UNCHANGED <<from_string, result>>
           ELSE /\ result' = Append(result, PyPrefix(from_string, c.cut_off))
                /\ from_string' = PySuffix(from_string, c.cut_off)
                /\ pc' = pc
    /\ UNCHANGED <<string, every, window, eqVars, showVars, cleanVars, wwerVars, jobVars>>

\* Line 243 of a direct call: the loop is left and result returned.
NlReturn ==
    /\ pc = "insert_newlines"
    /\ Len(from_string) = 0
    /\ pc' = "returned"
    /\ UNCHANGED <<eqVars, nlVars, showVars, cleanVars, wwerVars, jobVars>>

NextNewlines == NlIter \/ NlReturn

\* insert_newlines(string, every, window) for small every and window,
\* window >= every included.
InitNewlines ==
    /\ pc = "insert_newlines"
    /\ string \in Strings(EqAlphabet, MaxNlLen)
    /\ every \in 1..MaxWidth
    /\ window \in 0..MaxMargin
    /\ from_string = string
    /\ result = <<>>
    /\ EqIdle /\ ShowIdle /\ CleanIdle /\ WwerIdle /\ JobIdle

SpecNewlines == InitNewlines /\ [][NextNewlines]_vars

\* insert_newlines(string, 10, 3): the width and margin of the renderer's
\* testable property.
InitWrap10 ==
    /\ pc = "insert_newlines"
    /\ string \in Strings(EqAlphabet, MaxWrapLen)
    /\ every = 10
    /\ window = 3
    /\ from_string = string
    /\ result = <<>>
    /\ EqIdle /\ ShowIdle /\ CleanIdle /\ WwerIdle /\ JobIdle

SpecWrap10 == InitWrap10 /\ [][NextNewlines]_vars

\* ------------------------------------------------ a call of show_comparison

InitShow ==
    /\ pc = "show_comparison"
    /\ s1 \in Strings(EqAlphabet, MaxShowLen)
    /\ s2 \in Strings(EqAlphabet, MaxShowLen)
    /\ eq1 = <<>> /\ eq2 = <<>>
    /\ every \in 1..MaxWidth
    /\ window \in 0..MaxMargin
    /\ sidebyside \in BOOLEAN
    /\ string = <<>> /\ from_string = <<>> /\ result = <<>>
    /\ lines1 = <<>> /\ lines2 = <<>> /\ printed = 0
    /\ CleanIdle /\ WwerIdle /\ JobIdle

\* Line 265: s1, s2 = equalize(s1, s2).
ShowEqualize ==
    /\ pc = "show_comparison"
    /\ eq1' = equalize(s1, s2)[1]
    /\ eq2' = equalize(s1, s2)[2]
    /\ pc' = "equalized"
    /\ UNCHANGED <<s1, s2, nlVars, showVars, cleanVars, wwerVars, jobVars>>

\* Lines 280-282: not side by side, the two strings are printed unwrapped.
ShowPlain ==
    /\ pc = "equalized"
    /\ ~sidebyside
    /\ printed' = 2
    /\ pc' = "done"
    /\ UNCHANGED <<lines1, lines2, sidebyside, eqVars, nlVars, cleanVars, wwerVars, jobVars>>

\* Line 268: insert_newlines(s1, width, margin) is called.
ShowWrap1 ==
    /\ pc = "equalized"
    /\ sidebyside
    /\ string' = eq1
    /\ from_string' = eq1
    /\ result' = <<>>
    /\ pc' = "wrap1"
    /\ UNCHANGED <<every, window, eqVars, showVars, cleanVars, wwerVars, jobVars>>

\* ShowWrap2 with insert_newlines(s2, width): margin is not passed on and
\* window takes its default, 10.
ShowWrap2NoMargin ==
    /\ pc = "wrap1"
    /\ Len(from_string) = 0
    /\ lines1' = result
    /\ string' = eq2
    /\ from_string' = eq2
    /\ result' = <<>>
    /\ window' = 10
    /\ pc' = "wrap2"
    /\ UNCHANGED <<every, lines2, sidebyside, printed, eqVars, cleanVars, wwerVars, jobVars>>

\* Lines 268-269: the first call returns into s1 and
\* insert_newlines(s2, width, margin) is called.
ShowWrap2 ==
    /\ pc = "wrap1"
    /\ Len(from_string) = 0
    /\ lines1' = result
    /\ string' = eq2
    /\ from_string' = eq2
    /\ result' = <<>>
    /\ pc' = "wrap2"
    /\ UNCHANGED <<every, window, lines2, sidebyside, printed, eqVars, cleanVars,
                   wwerVars, jobVars>>

\* Line 269: the second call returns into s2.
ShowWrapped ==
    /\ pc = "wrap2"
    /\ Len(from_string) = 0
    /\ lines2' = result
    /\ pc' = "print"
    /\ UNCHANGED <<lines1, sidebyside, printed, eqVars, nlVars, cleanVars, wwerVars, jobVars>>

\* Lines 271-279: one pass of "for i in range(0, len(s1))", which reads s1[i]
\* and s2[i] and prints one line; s2[i] raises IndexError past the end of s2.
\* The compact and the plain branch read the same two chunks and differ only
\* in the text printed.
ShowPrint ==
    /\ pc = "print"
    /\ printed < Len(lines1)
    /\ IF printed < Len(lines2)
       THEN printed' = printed + 1 /\ pc' = pc
       ELSE printed' = printed /\ pc' = "raise_print"
    /\ UNCHANGED <<lines1, lines2, sidebyside, eqVars, nlVars, cleanVars, wwerVars, jobVars>>

\* The for loop is exhausted and show_comparison returns.
ShowDone ==
    /\ pc = "print"
    /\ printed = Len(lines1)
    /\ pc' = "done"
    /\ UNCHANGED <<eqVars, nlVars, showVars, cleanVars, wwerVars, jobVars>>

NextShow ==
    \/ ShowEqualize
    \/ ShowPlain
    \/ ShowWrap1
    \/ NlIter
    \/ ShowWrap2
    \/ ShowWrapped
    \/ ShowPrint
    \/ ShowDone

SpecShow == InitShow /\ [][NextShow]_vars

\* -------------------------------------------------- two calls of clean_text

\* The characters of the texts given to clean_text.
CleanAlphabet == {"a", "b", "A", ".", "-", " "}

\* The replacements given to clean_text: every mapping of some of the keys to
\* the values; a value may be a key, hold several words or upper case.
ReplKeys == {<<"a">>, <<"b">>}
ReplValues == {<<"b">>, <<"c">>, <<"a", " ", "b">>, <<"B">>}
ReplDicts == UNION {[K -> ReplValues] : K \in SUBSET ReplKeys}

RemoveLists == {<<>>, <<<<"b">>>>}

\* "I'm happy happy" and {"i'm": "i am"}, an entry of en_short_forms().
ExampleText ==
    <<"I", "'", "m", " ", "h", "a", "p", "p", "y", " ", "h", "a", "p", "p", "y">>
ExampleReplacements == (<<"i", "'", "m">> :> <<"i", " ", "a", "m">>)

CleanInputs ==
    (Strings(CleanAlphabet, MaxTextLen) \X ReplDicts)
        \cup {<<ExampleText, ExampleReplacements>>}

InitClean ==
    /\ pc = "clean_text"
    /\ \E inp \in CleanInputs : text = inp[1] /\ replacements = inp[2]
    /\ to_remove \in RemoveLists
    /\ cased \in BOOLEAN
    /\ cleaned = <<>>
    /\ recleaned = <<>>
    /\ EqIdle /\ NlIdle /\ ShowIdle /\ WwerIdle /\ JobIdle

\* clean_text(text, replacements, to_remove, cased).
CleanText ==
    /\ pc = "clean_text"
    /\ cleaned' = clean_text(text, replacements, to_remove, cased)
    /\ pc' = "cleaned"
    /\ UNCHANGED <<text, replacements, to_remove, cased, recleaned, eqVars, nlVars,
                   showVars, wwerVars, jobVars>>

\* clean_text applied to its own result, with the same configuration.
CleanAgain ==
    /\ pc = "cleaned"
    /\ recleaned' = clean_text(cleaned, replacements, to_remove, cased)
    /\ pc' = "recleaned"
    /\ UNCHANGED <<text, replacements, to_remove, cased, cleaned, eqVars, nlVars,
                   showVars, wwerVars, jobVars>>

NextClean == CleanText \/ CleanAgain

SpecClean == InitClean /\ [][NextClean]_vars

\* clean_text with a replacement whose value holds punctuation and, the
\* punctuation removed, is its own key: {"ab": "a.b"}, next to the empty
\* mapping.
PunctAlphabet == {"a", "b", " "}
PunctDicts == {<<>>, (<<"a", "b">> :> <<"a", ".", "b">>)}

InitCleanPunct ==
    /\ pc = "clean_text"
    /\ text \in Strings(PunctAlphabet, MaxPunctLen)
    /\ replacements \in PunctDicts
    /\ to_remove \in RemoveLists
    /\ cased \in BOOLEAN
    /\ cleaned = <<>>
    /\ recleaned = <<>>
    /\ EqIdle /\ NlIdle /\ ShowIdle /\ WwerIdle /\ JobIdle

SpecCleanPunct == InitCleanPunct /\ [][NextClean]_vars


\* ----------------------------------------------------- a call of weighted_wer

\* sum(weight * wer for weight, wer in zip(weights, wers)): zip stops at the
\* end of the shorter list.
RECURSIVE ZipSum(_, _, _)
ZipSum(ws, rs, n) ==
    IF n > Len(ws) \/ n > Len(rs) THEN 0
    ELSE ws[n] * rs[n] + ZipSum(ws, rs, n + 1)

\* sum(weights)
RECURSIVE Sum(_, _)
Sum(ws, n) == IF n > Len(ws) THEN 0 ELSE ws[n] + Sum(ws, n + 1)

\* round(num / den, 2) in hundredths, num being in hundredths too: the nearest
\* integer to num / den, the even one of two equally near (num >= 0, den > 0).
RoundDiv(num, den) ==
    LET q == num \div den
        r == num % den
    IN  IF 2 * r > den \/ (2 * r = den /\ q % 2 = 1) THEN q + 1 ELSE q

\* The rates given to weighted_wer, in hundredths: 0.0, 0.5 and 100.0.
Rates == {0, 50, 10000}

InitWwer ==
    /\ pc = "weighted_wer"
    /\ weights \in Strings(0..MaxWeight, MaxSamples)
    /\ wers \in Strings(Rates, MaxSamples)
    /\ wwer = 0
    /\ EqIdle /\ NlIdle /\ ShowIdle /\ CleanIdle /\ JobIdle

\* Lines 368-369; the division raises ZeroDivisionError when the weights sum
\* to 0.
WeightedWer ==
    /\ pc = "weighted_wer"
    /\ IF Sum(weights, 1) = 0
       THEN pc' = "raise_ZeroDivisionError" /\ wwer' = wwer
       ELSE /\ wwer' = RoundDiv(ZipSum(weights, wers, 1), Sum(weights, 1))
            /\ pc' = "returned"
    /\ UNCHANGED <<weights, wers, eqVars, nlVars, showVars, cleanVars, jobVars>>

NextWwer == WeightedWer

SpecWwer == InitWwer /\ [][NextWwer]_vars

\* ------------------------- transcribe_folder followed by download_folder

\* job["TranscriptionJob"]["TranscriptionJobStatus"]; "NONE" when the service
\* holds no job for the file.
JobStatus == {"NONE", "IN_PROGRESS", "COMPLETED", "FAILED"}

\* transcribe_folder(...) on a folder that lists files files (lines 279-281).
InitJobs ==
    /\ pc = "transcribe_folder"
    /\ files \in 0..MaxFiles
    /\ passed = 0
    /\ job_count = 0
    /\ jobs = [i \in 1..files |-> "NONE"]
    /\ outputs = {}
    /\ sleeps = 0
    /\ EqIdle /\ NlIdle /\ ShowIdle /\ CleanIdle /\ WwerIdle

\* The for loop takes the next file and transcribe_file starts its job:
\* start_transcription_job (line 240) returns, the else of line 243 is entered.
StartJob ==
    /\ pc = "transcribe_folder"
    /\ passed < files
    /\ jobs' = [jobs EXCEPT ![passed + 1] = "IN_PROGRESS"]
    /\ pc' = "get_transcription_job"
    /\ UNCHANGED <<files, passed, job_count, outputs, sleeps,
                   eqVars, nlVars, showVars, cleanVars, wwerVars>>

\* start_transcription_job raises ClientError: transcribe_file logs it (lines
\* 241-242) and returns, and transcribe_folder goes on to line 296.
StartJobFails ==
    /\ pc = "transcribe_folder"
    /\ passed < files
    /\ job_count' = job_count + 1
    /\ passed' = passed + 1
    /\ pc' = pc
    /\ UNCHANGED <<files, jobs, outputs, sleeps,
                   eqVars, nlVars, showVars, cleanVars, wwerVars>>

\* get_transcription_job reports a job still running: time.sleep(10), line 250.
GetJobRunning ==
    /\ pc = "get_transcription_job"
    /\ jobs[passed + 1] = "IN_PROGRESS"
    /\ sleeps < MaxSleeps
    /\ sleeps' = sleeps + 1
    /\ pc' = pc
    /\ UNCHANGED <<files, passed, job_count, jobs, outputs,
                   eqVars, nlVars, showVars, cleanVars, wwerVars>>

\* get_transcription_job reports COMPLETED or FAILED: break (line 248),
\* transcribe_file returns and line 296 counts the job.
GetJobEnded ==
    /\ pc = "get_transcription_job"
    /\ jobs[passed + 1] \in {"COMPLETED", "FAILED"}
    /\ job_count' = job_count + 1
    /\ passed' = passed + 1
    /\ pc' = "transcribe_folder"
    /\ UNCHANGED <<files, jobs, outputs, sleeps,
                   eqVars, nlVars, showVars, cleanVars, wwerVars>>

\* get_transcription_job raises ClientError: the else of line 243 is outside
\* the try, the error leaves transcribe_file and is caught at line 297; line
\* 296 is skipped.
GetJobRaises ==
    /\ pc = "get_transcription_job"
    /\ passed' = passed + 1
    /\ pc' = "transcribe_folder"
    /\ UNCHANGED <<files, job_count, jobs, outputs, sleeps,
                   eqVars, nlVars, showVars, cleanVars, wwerVars>>

\* The service ends a running job and writes its transcript to the output
\* folder (OutputBucketName, OutputKey of lines 233-234).
JobCompletes ==
    /\ pc \in {"transcribe_folder", "get_transcription_job", "download_folder"}
    /\ \E i \in 1..files :
          /\ jobs[i] = "IN_PROGRESS"
          /\ jobs' = [jobs EXCEPT ![i] = "COMPLETED"]
          /\ outputs' = outputs \cup {i}
    /\ pc' = pc
    /\ UNCHANGED <<files, passed, job_count, sleeps,
                   eqVars, nlVars, showVars, cleanVars, wwerVars>>

\* The service ends a running job as FAILED: no transcript is written.
JobFails ==
    /\ pc \in {"transcribe_folder", "get_transcription_job", "download_folder"}
    /\ \E i \in 1..files :
          /\ jobs[i] = "IN_PROGRESS"
          /\ jobs' = [jobs EXCEPT ![i] = "FAILED"]
    /\ pc' = pc
    /\ UNCHANGED <<files, passed, job_count, outputs, sleeps,
                   eqVars, nlVars, showVars, cleanVars, wwerVars>>

\* The for loop is exhausted: transcribe_folder returns job_count (line 302),
\* which is handed to download_folder.
FolderTranscribed ==
    /\ pc = "transcribe_folder"
    /\ passed = files
    /\ pc' = "download_folder"
    /\ UNCHANGED <<jobVars, eqVars, nlVars, showVars, cleanVars, wwerVars>>

\* One round of the while of download_folder (lines 319-324): the listed
\* output objects are counted and compared with job_count.
ListOutputs ==
    /\ pc = "download_folder"
    /\ IF Cardinality(outputs) = job_count
       THEN /\ pc' = "downloading"
            /\ sleeps' = sleeps
       ELSE /\ sleeps < MaxSleeps
            /\ sleeps' = sleeps + 1
            /\ pc' = pc
    /\ UNCHANGED <<files, passed, job_count, jobs, outputs,
                   eqVars, nlVars, showVars, cleanVars, wwerVars>>

NextJobs ==
    \/ StartJob \/ StartJobFails
    \/ GetJobRunning \/ GetJobEnded \/ GetJobRaises
    \/ JobCompletes \/ JobFails
    \/ FolderTranscribed \/ ListOutputs

SpecJobs == InitJobs /\ [][NextJobs]_vars

\* ------------------------------------------------------ claims on equalize

\* t.split(" "): the tokens between single blanks, empty ones included.
RECURSIVE SplitOnBlank(_, _, _)
SplitOnBlank(t, k, cur) ==
    IF k > Len(t) THEN <<cur>>
    ELSE IF t[k] = " " THEN <<cur>> \o SplitOnBlank(t, k + 1, <<>>)
    ELSE SplitOnBlank(t, k + 1, Append(cur, t[k]))

BlankTokens(t) == SplitOnBlank(t, 1, <<>>)

IsUnderscores(tok) == \A k \in 1..Len(tok) : tok[k] = "_"

HasBlankAtEnds(t) == Len(t) > 0 /\ (t[1] \in Whitespace \/ t[Len(t)] \in Whitespace)

\* t is single-spaced: blanks are its only whitespace, none at either end and
\* no two in a row.
Normalized(t) ==
    /\ ~HasBlankAtEnds(t)
    /\ \A k \in 1..Len(t) : t[k] \in Whitespace => t[k] = " "
    /\ \A k \in 1..(Len(t) - 1) : ~(t[k] = " " /\ t[k + 1] = " ")

\* C1: the two strings returned by equalize(s1, s2) hold the same number of
\* single-space-separated tokens, for every s1 and s2 (empty strings and
\* strings with leading or trailing whitespace included).
C1_SameTokenCount ==
    pc = "equalized" => Len(BlankTokens(eq1)) = Len(BlankTokens(eq2))

\* C1's case: arguments with different numbers of tokens, one of them with
\* whitespace at an end, the other empty or not.
C1_Witness ==
    /\ pc = "equalized"
    /\ Len(tokenize(s1)) # Len(tokenize(s2))
    /\ HasBlankAtEnds(s1)
    /\ Len(BlankTokens(eq1)) >= 3

\* C2: at every token position of the result of equalize the two tokens are
\* the same token, or one of them is a run of underscores as long as the
\* token opposite; so the two strings have the same length and their blanks
\* at the same indexes.
C2_Aligned ==
    pc = "equalized" =>
        LET l == BlankTokens(eq1)
            r == BlankTokens(eq2)
        IN  /\ Len(l) = Len(r)
            /\ \A n \in 1..Len(l) :
                   \/ l[n] = r[n]
                   \/ IsUnderscores(l[n]) /\ Len(l[n]) = Len(r[n])
                   \/ IsUnderscores(r[n]) /\ Len(r[n]) = Len(l[n])
            /\ Len(eq1) = Len(eq2)
            /\ \A k \in 1..Len(eq1) : (eq1[k] = " ") <=> (eq2[k] = " ")

\* C2's case: a result with a placeholder on the left opposite a token of two
\* characters or more, and a placeholder on the right.
C2_Witness ==
    /\ pc = "equalized"
    /\ LET l == BlankTokens(eq1)
           r == BlankTokens(eq2)
       IN  /\ Len(l) = Len(r)
           /\ \E n \in 1..Len(l) :
                  IsUnderscores(l[n]) /\ Len(l[n]) >= 2 /\ ~IsUnderscores(r[n])
           /\ \E n \in 1..Len(l) :
                  IsUnderscores(r[n]) /\ Len(r[n]) >= 1 /\ ~IsUnderscores(l[n])

\* C10: equalize(s, s) returns (s, s) for every single-spaced s.
C10_RoundTrip ==
    (pc = "equalized" /\ s1 = s2 /\ Normalized(s1)) => (eq1 = s1 /\ eq2 = s1)

\* C10's case: a single-spaced string of several different words, equalized
\* with itself.
C10_Witness ==
    /\ pc = "equalized"
    /\ s1 = s2
    /\ Normalized(s1)
    /\ Len(tokenize(s1)) >= 2
    /\ \E n \in 1..(Len(tokenize(s1)) - 1) : tokenize(s1)[n] # tokenize(s1)[n + 1]

\* ------------------------------------------------- claims on the renderer

\* C3: side by side, whenever both wrappings finish, the wrapped left and
\* right strings have the same number of chunks: the print loop never reads
\* past the end of the right chunks and prints every one of them.
C3_SameLineCount ==
    /\ (pc \in {"print", "done"} /\ sidebyside) => Len(lines1) = Len(lines2)
    /\ pc # "raise_print"
    /\ (pc = "done" /\ sidebyside) => printed = Len(lines2)

\* C3's case: two different equalized strings, wrapped into several chunks
\* with a cut moved back to a blank, and printed.
C3_Witness ==
    /\ pc = "done"
    /\ sidebyside
    /\ eq1 # eq2
    /\ Len(lines1) >= 2
    /\ \E n \in 1..(Len(lines1) - 1) : Len(lines1[n]) < every
    /\ printed = Len(lines1)

\* Number of characters in the first n chunks.
RECURSIVE CutAt(_, _)
CutAt(chunks, n) == IF n = 0 THEN 0 ELSE CutAt(chunks, n - 1) + Len(chunks[n])

\* The chunk boundaries cut so far: the places p of string, 0 < p < len(string),
\* where a chunk ends after string[p - 1] and text follows.
Boundaries ==
    {p \in {CutAt(result, n) : n \in 1..Len(result)} : 0 < p /\ p < Len(string)}

\* The boundary p lies inside a word: neither neighbour is a blank.
InsideWord(t, p) == t[p] # " " /\ t[p + 1] # " "

\* Length of the word of t around the boundary p.
RECURSIVE WordStart(_, _)
WordStart(t, k) == IF k > 1 /\ t[k - 1] # " " THEN WordStart(t, k - 1) ELSE k
RECURSIVE WordEnd(_, _)
WordEnd(t, k) == IF k < Len(t) /\ t[k + 1] # " " THEN WordEnd(t, k + 1) ELSE k
WordLen(t, p) == WordEnd(t, p) - WordStart(t, p) + 1

\* C4 as stated: with width 10 and margin 3 no chunk boundary lies inside a
\* word, unless the word is longer than width characters.
C4_SplitsOnlyLongerThanWidth ==
    \A p \in Boundaries : InsideWord(string, p) => WordLen(string, p) > every

\* C4, amended: with width 10 and margin 3 no chunk boundary lies inside a
\* word, unless the word is longer than margin characters.
C4_SplitsOnlyLongerThanMargin ==
    \A p \in Boundaries : InsideWord(string, p) => WordLen(string, p) > window

\* C4's case: the wrapping of a string of several words returned with a
\* boundary inside a word no longer than width.
C4_Witness ==
    /\ pc = "returned"
    /\ every = 10 /\ window = 3
    /\ \E p \in Boundaries : InsideWord(string, p) /\ WordLen(string, p) <= every
    /\ \E k \in 1..Len(string) : string[k] = " "

\* C5: the wrapping loop terminates for every width >= 1 and margin >= 0:
\* every iteration removes at least one character of the remaining text (and
\* so raises nothing).
C5_EveryIterationShortens ==
    [][(pc = "insert_newlines" /\ Len(from_string) > 0)
          => (pc' = "insert_newlines" /\ Len(from_string') < Len(from_string))]_vars

\* C12: with 0 <= margin < width, an iteration on a remaining text longer
\* than width appends a chunk of exactly width characters when none of the
\* last margin characters of the first width characters is a blank; a chunk
\* shorter than width ends with a blank that lies among those last margin
\* characters; and no such chunk is shorter than width - margin.
C12_CutAtWidthUnlessBlank ==
    [][(/\ pc = "insert_newlines"
        /\ window < every
        /\ Len(from_string) > every
        /\ Len(result') = Len(result) + 1)
          => LET part   == result'[Len(result')]
                 blanks == {k \in (every - window + 1)..every : from_string[k] = " "}
             IN  /\ blanks = {} => Len(part) = every
                 /\ Len(part) < every => Len(part) \in blanks
                 /\ Len(part) >= every - window]_vars

\* ---------------------------------------------------- claims on weighted_wer

\* C6: weighted_wer returns no number when weights and wers differ in length.
C6_MismatchRaises == Len(weights) # Len(wers) => pc # "returned"

\* ------------------------------------------------------ claims on clean_text

\* C8: clean_text("I'm happy happy", {"i'm": "i am"}, [], cased=True) returns
\* "I am happy": the contraction expanded, the repeat collapsed and the
\* capital of the input kept.
C8_ExampleKeepsCase ==
    (/\ pc = "cleaned"
     /\ text = ExampleText
     /\ replacements = ExampleReplacements
     /\ to_remove = <<>>
     /\ cased)
        => cleaned = <<"I", " ", "a", "m", " ", "h", "a", "p", "p", "y">>

NoHyphen(t) == \A k \in 1..Len(t) : t[k] # "-"
NoPunctuation(t) == \A k \in 1..Len(t) : t[k] \notin Punctuation

\* Some word of t is, in lower case, a key of repl.
HasKeyWord(t, repl) ==
    \E n \in 1..Len(Split(t)) : Lower(Split(t)[n]) \in DOMAIN repl

\* No word of t is followed by the same word, ignoring case.
NoAdjacentEqualWords(t) ==
    \A n \in 1..(Len(Split(t)) - 1) : Lower(Split(t)[n]) # Lower(Split(t)[n + 1])

\* C9 as stated: with nothing to remove, when the first pass's output has no
\* consecutive duplicate words (none for the words between blanks, none for
\* the pattern of remove_consecutive_duplicates) and no hyphens, a second
\* clean_text changes nothing, whatever the replacements.
C9_Idempotent ==
    (/\ pc = "recleaned"
     /\ to_remove = <<>>
     /\ NoAdjacentEqualWords(cleaned)
     /\ remove_consecutive_duplicates(cleaned) = cleaned
     /\ NoHyphen(cleaned))
        => recleaned = cleaned

\* C9, amended: with nothing to remove, when the first pass's output has no
\* consecutive duplicate words, no punctuation (hyphens included) and no word
\* that is, ignoring case, a key of the replacements, a second clean_text
\* changes nothing.
C9_IdempotentWithoutKeys ==
    (/\ pc = "recleaned"
     /\ to_remove = <<>>
     /\ NoAdjacentEqualWords(cleaned)
     /\ NoPunctuation(cleaned)
     /\ ~HasKeyWord(cleaned, replacements))
        => recleaned = cleaned

\* C9's case: a first pass that replaced a word of the text and whose output
\* satisfies the conditions, followed by a second pass.
C9_Witness ==
    /\ pc = "recleaned"
    /\ to_remove = <<>>
    /\ HasKeyWord(text, replacements)
    /\ cleaned # text
    /\ Len(Split(cleaned)) >= 2
    /\ NoAdjacentEqualWords(cleaned)
    /\ NoPunctuation(cleaned)
    /\ ~HasKeyWord(cleaned, replacements)
    /\ recleaned = cleaned

\* C13: whatever the text, the replacements, the words to remove and cased,
\* the output of clean_text has no two adjacent words that are equal ignoring
\* case.
C13_NoAdjacentDuplicates == pc = "cleaned" => NoAdjacentEqualWords(cleaned)

\* ------------------------------------------------ claims on transcribe_folder

\* The files for which start_transcription_job returned: the service holds a
\* job for them.
Started == {i \in 1..files : jobs[i] # "NONE"}

\* C14: the job_count that transcribe_folder returns and download_folder
\* waits for is the number of listed files whose transcription job was
\* started; a file whose start_transcription_job raised ClientError is not
\* counted.
C14_CountsStartedJobs ==
    pc \in {"download_folder", "downloading"} => job_count = Cardinality(Started)

====
